---- MODULE Spec2Model ----
(***************************************************************************)
(* Model of src/app.py: a Streamlit script that resolves Google            *)
(* credentials (get_creds), builds one memoized translation client         *)
(* (get_translator_client), wraps one remote call per (text, language)     *)
(* pair in a memoized facade (translate_text) and renders a form (main).   *)
(*                                                                         *)
(* Texts (environment values, file contents, secrets) are sequences of     *)
(* one-character strings, so that endswith('.json') and json.loads are     *)
(* computed on the characters.  Python values are records tagged by t.     *)
(***************************************************************************)
EXTENDS Integers, Sequences, FiniteSets, TLC

\* ------------------------------------------------------------------ bounds
\* concurrent user sessions served by the one process
NumSessions == 2

\* script runs started in the process lifetime
MaxRuns == 2

Sessions == 1..NumSessions

\* ------------------------------------------------------- python values
PyNone == [t |-> "None"]

PyInt(n) == [t |-> "int", v |-> n]

PyStr(s) == [t |-> "str", v |-> s]

PyDict(m) == [t |-> "dict", m |-> m]

\* a test against None in place of truthiness
IsNotNone(v) == v.t # "None"

\* bool(value) as used by `if creds:` and `if not translate_client:`
Truthy(v) ==
  CASE v.t = "None" -> FALSE
    [] v.t = "int" -> v.v # 0
    [] v.t = "str" -> v.v # <<>>
    [] v.t = "dict" -> DOMAIN v.m # {}
    [] OTHER -> TRUE

\* ------------------------------------------------------------ json.loads
Digits == {"0", "1", "2", "3", "4", "5", "6", "7", "8", "9"}

DigitVal(c) ==
  CASE c = "0" -> 0 [] c = "1" -> 1 [] c = "2" -> 2 [] c = "3" -> 3
    [] c = "4" -> 4 [] c = "5" -> 5 [] c = "6" -> 6 [] c = "7" -> 7
    [] c = "8" -> 8 [] c = "9" -> 9

ParseFail == [ok |-> FALSE, val |-> PyNone, next |-> 0]

ParseOk(v, n) == [ok |-> TRUE, val |-> v, next |-> n]

HasAt(s, i, w) == i + Len(w) - 1 <= Len(s) /\ SubSeq(s, i, i + Len(w) - 1) = w

\* index of the closing quote of the string whose body starts at i, 0 if none
RECURSIVE ClosingQuote(_, _)
ClosingQuote(s, i) ==
  IF i > Len(s) THEN 0
  ELSE IF s[i] = "\"" THEN i
  ELSE ClosingQuote(s, i + 1)

\* the digits of a number starting at i: [val, next]
RECURSIVE ParseDigits(_, _, _)
ParseDigits(s, i, acc) ==
  IF i <= Len(s) /\ s[i] \in Digits
  THEN ParseDigits(s, i + 1, acc * 10 + DigitVal(s[i]))
  ELSE ParseOk(PyInt(acc), i)

RECURSIVE ParseValue(_, _)
RECURSIVE ParseMembers(_, _, _)
\* one JSON value starting at index i (grammar subset: null, non-negative
\* integers, strings without escapes, objects; no whitespace)
ParseValue(s, i) ==
  IF i > Len(s) THEN ParseFail
  ELSE IF HasAt(s, i, <<"n", "u", "l", "l">>) THEN ParseOk(PyNone, i + 4)
  ELSE IF s[i] = "0" THEN ParseOk(PyInt(0), i + 1)
  ELSE IF s[i] \in Digits THEN ParseDigits(s, i, 0)
  ELSE IF s[i] = "\"" THEN
    LET q == ClosingQuote(s, i + 1) IN
    IF q = 0 THEN ParseFail ELSE ParseOk(PyStr(SubSeq(s, i + 1, q - 1)), q + 1)
  ELSE IF s[i] = "{" THEN
    IF HasAt(s, i + 1, <<"}">>) THEN ParseOk(PyDict(<<>>), i + 2)
    ELSE ParseMembers(s, i + 1, <<>>)
  ELSE ParseFail

\* "key":value pairs separated by commas up to the closing brace; a repeated
\* key keeps its last value
ParseMembers(s, i, acc) ==
  IF ~(i <= Len(s) /\ s[i] = "\"") THEN ParseFail
  ELSE
    LET q == ClosingQuote(s, i + 1) IN
    IF q = 0 \/ ~HasAt(s, q + 1, <<":">>) THEN ParseFail
    ELSE
      LET key == SubSeq(s, i + 1, q - 1)
          r == ParseValue(s, q + 2)
      IN
      IF ~r.ok THEN ParseFail
      ELSE
        LET m == [k \in (DOMAIN acc) \cup {key} |-> IF k = key THEN r.val ELSE acc[k]] IN
        IF HasAt(s, r.next, <<"}">>) THEN ParseOk(PyDict(m), r.next + 1)
        ELSE IF HasAt(s, r.next, <<",">>) THEN ParseMembers(s, r.next + 1, m)
        ELSE ParseFail

\* json.loads / json.load: the whole text must be one value, else
\* JSONDecodeError (ok = FALSE)
JsonLoads(s) ==
  LET r == ParseValue(s, 1) IN
  IF r.ok /\ r.next = Len(s) + 1 THEN [ok |-> TRUE, val |-> r.val]
  ELSE [ok |-> FALSE, val |-> PyNone]

\* str.endswith('.json')
EndsWithJson(s) ==
  Len(s) >= 5 /\ SubSeq(s, Len(s) - 4, Len(s)) = <<".", "j", "s", "o", "n">>

\* ------------------------------------------------------- sample texts
T_SA == <<"{", "\"", "k", "\"", ":", "1", "}">>

T_OTHER == <<"{", "\"", "x", "\"", ":", "1", "}">>

T_EMPTY == <<"{", "}">>

T_NULL == <<"n", "u", "l", "l">>

T_GARBAGE == <<"{", "\"", "k", "\"", ":">>

P_JSON == <<"a", ".", "j", "s", "o", "n">>

P_ONE == <<"1">>

Paths == {P_JSON, P_ONE}

NoFile == [exists |-> FALSE, kind |-> "none", content |-> <<>>]

\* a readable text file
File(c) == [exists |-> TRUE, kind |-> "text", content |-> c]

\* a directory: open() raises IsADirectoryError
Directory == [exists |-> TRUE, kind |-> "dir", content |-> <<>>]

\* a file whose bytes are not UTF-8: json.load raises UnicodeDecodeError
Binary == [exists |-> TRUE, kind |-> "binary", content |-> <<>>]

\* a file removed between os.path.exists and open: FileNotFoundError
Vanishing == [exists |-> TRUE, kind |-> "vanish", content |-> <<>>]

Unset == [set |-> FALSE, value |-> <<>>]

Set(v) == [set |-> TRUE, value |-> v]

\* values of GOOGLE_APPLICATION_TRANSLATE_CREDENTIALS_JSON
EnvChoices == {Unset} \cup {Set(v) : v \in {T_SA, T_OTHER, T_EMPTY, T_NULL, T_GARBAGE, P_JSON, P_ONE}}

\* contents of the file the variable may name
FileChoices(p) ==
  IF p = P_JSON
  THEN {NoFile, File(T_SA), File(T_GARBAGE), File(T_EMPTY), Directory, Binary, Vanishing}
  ELSE {NoFile, File(T_SA)}

\* st.secrets without the entry GOOGLE_CREDS
NoSecret == [set |-> FALSE, text |-> FALSE, value |-> <<>>]

\* GOOGLE_CREDS holding text
SecretText(v) == [set |-> TRUE, text |-> TRUE, value |-> v]

\* GOOGLE_CREDS holding a table of secrets.toml, not text: json.loads
\* raises TypeError
SecretTable == [set |-> TRUE, text |-> FALSE, value |-> <<>>]

\* st.secrets: the entry GOOGLE_CREDS
SecretChoices == {NoSecret, SecretText(T_SA), SecretText(T_GARBAGE), SecretText(T_NULL), SecretTable}

\* fields from_service_account_info requires of the payload
RequiredFields == {<<"k">>}

\* ------------------------------------------------------- user-facing messages
E_FILE == "file path does not exist"

E_JSON_ENV == "error decoding JSON in environment variable"

E_UNEXPECTED_ENV == "unexpected error loading credentials from environment variable"

E_JSON_SECRET == "error decoding st.secrets GOOGLE_CREDS"

E_UNEXPECTED_SECRET == "unexpected error loading st.secrets credentials"

E_NO_CREDS == "no Google credentials found"

E_CLIENT == "translation client could not be initialized"

E_TRANSLATE == "translation failed"

W_EMPTY == "please enter some text"

EXC == "uncaught exception"

\* ------------------------------------------------------- form inputs
\* codes of the LANGUAGES catalog offered by the dropdown (two of the eleven)
LANGUAGES == {"es", "fr"}

Texts == {"", "Hi"}

\* the remote service's answer to a request
Translated(text, lang) == text \o "@" \o lang

Keys == Texts \X LANGUAGES

NoEntry == [set |-> FALSE, val |-> PyNone, msgs |-> {}]

Entry(v, m) == [set |-> TRUE, val |-> v, msgs |-> m]

Client(n) == [t |-> "Client", id |-> n]

NoCall == [n |-> 0, caller |-> "none", issued |-> FALSE, done |-> FALSE, ret |-> "", hit |-> FALSE, failedBefore |-> FALSE]

VARIABLES
  environ,               \* os.environ entry read at lines 37-38
  files,                 \* the files os.path.exists / open see (lines 41-43)
  secrets,               \* st.secrets entry GOOGLE_CREDS (lines 58-60)
  credsCache,            \* store of @st.cache_resource on get_creds (line 28)
  clientCache,           \* store of @st.cache_resource on get_translator_client (line 73)
  ttCache,               \* store of @st.cache_data on translate_text, by key (line 143)
  ttLock,                \* session computing a key's entry, 0 if none
  pc,                    \* position of each session's script run
  translate_client,      \* the run's module global of line 87
  original_text,         \* st.text_area value (line 171)
  target_language_code,  \* code of the st.selectbox choice (lines 178-182)
  clicked,               \* st.button("Translate") (line 185)
  ui,                    \* "Pending" inside the spinner of line 187, else "Idle"
  msgs,                  \* st.error / st.warning elements on the session's page
  shown,                 \* text rendered by st.success (line 190), "" if none
  outcome,               \* how the session's latest run ended
  call,                  \* the latest run's facade call: its caller, result, whether
                         \* it came from the cache, whether it reached the service
  runs,                  \* script runs started
  clientBuilt,           \* translate.Client constructions (line 81)
  credsLoaded,           \* results of get_creds stored (line 70)
  remoteCalls,           \* translate_client.translate calls per pair (line 155)
  failed,                \* pairs whose remote call raised (line 157)
  lastCreds,             \* outcome of the latest execution of get_creds' body
  secretReads            \* accesses of st.secrets (lines 58-60)

env == <<environ, files, secrets>>

caches == <<credsCache, clientCache, ttCache, ttLock>>

widgets == <<original_text, target_language_code, clicked>>

counters == <<runs, clientBuilt, credsLoaded, remoteCalls, failed, lastCreds, secretReads>>

vars == <<env, caches, pc, translate_client, widgets, ui, msgs, shown, outcome, call, counters>>

\* ------------------------------------------------------- get_creds
\* os.path.exists(env_value)
PathExists(fs, p) == p \in DOMAIN fs /\ fs[p].exists

\* the file branch taken for every existing path, whatever its suffix
ReadsFileAnySuffix(e, fs) == PathExists(fs, e.value)

\* the branch of line 41: the value is read as a file
ReadsFile(e, fs) == PathExists(fs, e.value) /\ EndsWithJson(e.value)

\* the try block of lines 40-46: exc names the exception raised ("none" if
\* none), src the source whose text reached the JSON parser
TryEnv(e, fs) ==
  IF ReadsFile(e, fs)
  THEN LET f == fs[e.value] IN
       CASE f.kind = "vanish" -> [exc |-> "FileNotFoundError", val |-> PyNone, src |-> {}]
         [] f.kind = "dir" -> [exc |-> "Exception", val |-> PyNone, src |-> {}]
         [] f.kind = "binary" -> [exc |-> "Exception", val |-> PyNone, src |-> {"file"}]
         [] OTHER ->
              LET r == JsonLoads(f.content) IN
              [exc |-> IF r.ok THEN "none" ELSE "JSONDecodeError", val |-> r.val, src |-> {"file"}]
  ELSE LET r == JsonLoads(e.value) IN
       [exc |-> IF r.ok THEN "none" ELSE "JSONDecodeError", val |-> r.val, src |-> {"env"}]

\* the try block of lines 59-60
TrySecret(sec) ==
  IF ~sec.text
  THEN [exc |-> "Exception", val |-> PyNone, src |-> {"secret"}]
  ELSE LET r == JsonLoads(sec.value) IN
       [exc |-> IF r.ok THEN "none" ELSE "JSONDecodeError", val |-> r.val, src |-> {"secret"}]

\* a result of get_creds' body
Returns(v, m, src, parsed, n) ==
  [kind |-> "return", val |-> v, msgs |-> m, src |-> src, parsed |-> parsed, secret |-> n]

\* st.error(m) followed by st.stop()
Stops(m, src, n) ==
  [kind |-> "stop", val |-> PyNone, msgs |-> {m}, src |-> src, parsed |-> FALSE, secret |-> n]

\* get_creds whose JSONDecodeError handler of the environment branch reports
\* the error and returns instead of calling st.stop()
get_creds_env_no_stop(e, fs, sec) ==
  IF e.set THEN
    LET r == TryEnv(e, fs) IN
    CASE r.exc = "none" -> Returns(r.val, {}, r.src, TRUE, 0)
      [] r.exc = "FileNotFoundError" -> Stops(E_FILE, r.src, 0)
      [] r.exc = "JSONDecodeError" -> Returns(PyNone, {E_JSON_ENV}, r.src, FALSE, 0)
      [] OTHER -> Stops(E_UNEXPECTED_ENV, r.src, 0)
  ELSE IF sec.set THEN
    LET r == TrySecret(sec) IN
    CASE r.exc = "none" -> Returns(r.val, {}, r.src, TRUE, 2)
      [] r.exc = "JSONDecodeError" -> Returns(PyNone, {E_JSON_SECRET}, r.src, FALSE, 2)
      [] OTHER -> Returns(PyNone, {E_UNEXPECTED_SECRET}, r.src, FALSE, 2)
  ELSE Stops(E_NO_CREDS, {}, 1)

\* body of get_creds: kind is "return" or "stop" (st.stop()); src is the
\* source whose text was handed to the JSON parser; secret counts the
\* accesses of st.secrets (the test of line 58, the read of line 60)
get_creds(e, fs, sec) ==
  IF e.set THEN
    LET r == TryEnv(e, fs) IN
    CASE r.exc = "none" -> Returns(r.val, {}, r.src, TRUE, 0)
      [] r.exc = "FileNotFoundError" -> Stops(E_FILE, r.src, 0)
      [] r.exc = "JSONDecodeError" -> Stops(E_JSON_ENV, r.src, 0)
      [] OTHER -> Stops(E_UNEXPECTED_ENV, r.src, 0)
  ELSE IF sec.set THEN
    LET r == TrySecret(sec) IN
    CASE r.exc = "none" -> Returns(r.val, {}, r.src, TRUE, 2)
      [] r.exc = "JSONDecodeError" -> Returns(PyNone, {E_JSON_SECRET}, r.src, FALSE, 2)
      [] OTHER -> Returns(PyNone, {E_UNEXPECTED_SECRET}, r.src, FALSE, 2)
  ELSE Stops(E_NO_CREDS, {}, 1)

\* service_account.Credentials.from_service_account_info accepts the payload
IsServiceAccountInfo(v) == v.t = "dict" /\ RequiredFields \subseteq DOMAIN v.m

\* ------------------------------------------------------- memoization
\* @st.cache_resource on get_creds: a stored result is returned
CredsCacheHit(c) == c.set

\* get_translator_client without its decorator: every call runs the body
ClientNeverCached(c) == FALSE

\* @st.cache_resource on get_translator_client: a stored result is returned
ClientCacheHit(c) == c.set

\* @st.cache_data on translate_text: the key is the argument pair
CacheKey(text, lang) == <<text, lang>>

\* translate_text without its decorator: every call runs the body
DataNeverCached(c) == FALSE

\* @st.cache_data on translate_text: a stored result is returned
DataCacheHit(c) == c.set

Init ==
  /\ environ \in EnvChoices
  /\ files \in {f \in [Paths -> UNION {FileChoices(p) : p \in Paths}] :
                  \A p \in Paths : /\ f[p] \in FileChoices(p)
                                   /\ (f[p].exists => environ = Set(p))}
  /\ secrets \in {x \in SecretChoices : environ.set => x = SecretText(T_SA)}
  /\ credsCache = NoEntry
  /\ clientCache = NoEntry
  /\ ttCache = [k \in Keys |-> NoEntry]
  /\ ttLock = [k \in Keys |-> 0]
  /\ pc = [s \in Sessions |-> "idle"]
  /\ translate_client = [s \in Sessions |-> PyNone]
  /\ original_text = [s \in Sessions |-> ""]
  /\ target_language_code = [s \in Sessions |-> "es"]
  /\ clicked = [s \in Sessions |-> FALSE]
  /\ ui = [s \in Sessions |-> "Idle"]
  /\ msgs = [s \in Sessions |-> {}]
  /\ shown = [s \in Sessions |-> ""]
  /\ outcome = [s \in Sessions |-> "none"]
  /\ call = [s \in Sessions |-> NoCall]
  /\ runs = 0
  /\ clientBuilt = 0
  /\ credsLoaded = 0
  /\ remoteCalls = [k \in Keys |-> 0]
  /\ failed = {}
  /\ lastCreds = [kind |-> "none", val |-> PyNone, msgs |-> {}, src |-> {}, parsed |-> FALSE, secret |-> 0]
  /\ secretReads = 0

\* a user interaction (or the first page load) starts a script run of session
\* s with the widget values of that interaction; the run reaches line 87 and
\* looks get_translator_client() up in its cache, without the lock
StartRun(s, text, lang, click) ==
  /\ pc[s] = "idle"
  /\ runs < MaxRuns
  /\ runs' = runs + 1
  /\ original_text' = [original_text EXCEPT ![s] = text]
  /\ target_language_code' = [target_language_code EXCEPT ![s] = lang]
  /\ clicked' = [clicked EXCEPT ![s] = click]
  /\ shown' = [shown EXCEPT ![s] = ""]
  /\ outcome' = [outcome EXCEPT ![s] = "running"]
  /\ call' = [call EXCEPT ![s] = NoCall]
  /\ IF ClientCacheHit(clientCache)
     THEN /\ translate_client' = [translate_client EXCEPT ![s] = clientCache.val]
          /\ msgs' = [msgs EXCEPT ![s] = clientCache.msgs]
          /\ pc' = [pc EXCEPT ![s] = "form"]
     ELSE /\ translate_client' = [translate_client EXCEPT ![s] = PyNone]
          /\ msgs' = [msgs EXCEPT ![s] = {}]
          /\ pc' = [pc EXCEPT ![s] = "client_wait"]
  /\ UNCHANGED <<env, caches, ui, clientBuilt, credsLoaded, remoteCalls, failed, lastCreds, secretReads>>

\* line 87 after a cache miss: under the cache's compute lock (the step is
\* atomic) the cache is read again and, on a second miss, the body of
\* get_translator_client runs, with its memoized call of get_creds
get_translator_client(s) ==
  /\ pc[s] = "client_wait"
  /\ IF ClientCacheHit(clientCache)
     THEN /\ translate_client' = [translate_client EXCEPT ![s] = clientCache.val]
          /\ msgs' = [msgs EXCEPT ![s] = @ \cup clientCache.msgs]
          /\ pc' = [pc EXCEPT ![s] = "form"]
          /\ UNCHANGED <<credsCache, clientCache, clientBuilt, credsLoaded, lastCreds, secretReads, outcome>>
     ELSE
       LET hit == CredsCacheHit(credsCache)
           o == IF hit
                THEN [kind |-> "return", val |-> credsCache.val, msgs |-> credsCache.msgs,
                      src |-> {}, parsed |-> FALSE, secret |-> 0]
                ELSE get_creds(environ, files, secrets)
           creds == o.val
       IN
       /\ IF hit
          THEN UNCHANGED <<credsCache, credsLoaded, lastCreds, secretReads>>
          ELSE /\ lastCreds' = o
               /\ secretReads' = secretReads + o.secret
               /\ IF o.kind = "return"
                  THEN /\ credsCache' = Entry(o.val, o.msgs)
                       /\ credsLoaded' = credsLoaded + 1
                  ELSE UNCHANGED <<credsCache, credsLoaded>>
       /\ IF o.kind = "stop"
          THEN \* st.stop() ends the run; nothing is stored
               /\ msgs' = [msgs EXCEPT ![s] = @ \cup o.msgs]
               /\ outcome' = [outcome EXCEPT ![s] = "stopped"]
               /\ pc' = [pc EXCEPT ![s] = "idle"]
               /\ UNCHANGED <<clientCache, clientBuilt, translate_client>>
          ELSE IF ~Truthy(creds)
          THEN /\ clientCache' = Entry(PyNone, o.msgs)
               /\ translate_client' = [translate_client EXCEPT ![s] = PyNone]
               /\ msgs' = [msgs EXCEPT ![s] = @ \cup o.msgs]
               /\ pc' = [pc EXCEPT ![s] = "form"]
               /\ UNCHANGED <<clientBuilt, outcome>>
          ELSE IF IsServiceAccountInfo(creds)
          THEN /\ clientBuilt' = clientBuilt + 1
               /\ clientCache' = Entry(Client(clientBuilt + 1), o.msgs)
               /\ translate_client' = [translate_client EXCEPT ![s] = Client(clientBuilt + 1)]
               /\ msgs' = [msgs EXCEPT ![s] = @ \cup o.msgs]
               /\ pc' = [pc EXCEPT ![s] = "form"]
               /\ UNCHANGED outcome
          ELSE \* from_service_account_info raises; the run ends with the exception
               /\ msgs' = [msgs EXCEPT ![s] = @ \cup o.msgs \cup {EXC}]
               /\ outcome' = [outcome EXCEPT ![s] = "crashed"]
               /\ pc' = [pc EXCEPT ![s] = "idle"]
               /\ UNCHANGED <<clientCache, clientBuilt, translate_client>>
  /\ UNCHANGED <<env, ttCache, ttLock, widgets, ui, shown, call, runs, remoteCalls, failed>>

\* the facade returns value v with the elements m it displayed: the spinner
\* block of main ends and a non-empty result is rendered (lines 187-190)
Finish(s, caller, v, m, wasHit) ==
  /\ msgs' = [msgs EXCEPT ![s] = @ \cup m]
  /\ call' = [call EXCEPT ![s].caller = caller, ![s].done = TRUE, ![s].ret = v, ![s].hit = wasHit,
                          ![s].n = IF call[s].caller = "none" THEN @ + 1 ELSE @,
                          ![s].failedBefore = IF call[s].caller = "none"
                                              THEN <<original_text[s], target_language_code[s]>> \in failed
                                              ELSE @]
  /\ shown' = [shown EXCEPT ![s] = IF caller = "main" /\ v # "" THEN v ELSE @]
  /\ ui' = [ui EXCEPT ![s] = "Idle"]
  /\ outcome' = [outcome EXCEPT ![s] = "done"]
  /\ pc' = [pc EXCEPT ![s] = "idle"]

\* the call translate_text(original_text, target_language_code) begins: the
\* memoizing wrapper looks the argument pair up, without the lock
Invoke(s, caller) ==
  LET c == ttCache[CacheKey(original_text[s], target_language_code[s])] IN
  IF DataCacheHit(c)
  THEN Finish(s, caller, c.val, c.msgs, TRUE)
  ELSE /\ call' = [call EXCEPT ![s].caller = caller, ![s].n = @ + 1,
                               ![s].failedBefore = <<original_text[s], target_language_code[s]>> \in failed]
       /\ ui' = [ui EXCEPT ![s] = IF caller = "main" THEN "Pending" ELSE @]
       /\ pc' = [pc EXCEPT ![s] = "tt_wait"]
       /\ UNCHANGED <<msgs, shown, outcome>>

\* main() without the test of line 185: the button always calls the facade
main_unguarded(s) ==
  /\ pc[s] = "form"
  /\ IF clicked[s]
     THEN Invoke(s, "main")
     ELSE /\ outcome' = [outcome EXCEPT ![s] = "done"]
          /\ pc' = [pc EXCEPT ![s] = "idle"]
          /\ UNCHANGED <<ui, call, shown, msgs>>
  /\ UNCHANGED <<env, caches, translate_client, widgets, counters>>

\* main(): the form and the Translate button (lines 162-193)
main(s) ==
  /\ pc[s] = "form"
  /\ IF clicked[s]
     THEN IF original_text[s] # ""
          THEN Invoke(s, "main")
          ELSE /\ msgs' = [msgs EXCEPT ![s] = @ \cup {W_EMPTY}]
               /\ outcome' = [outcome EXCEPT ![s] = "done"]
               /\ pc' = [pc EXCEPT ![s] = "idle"]
               /\ UNCHANGED <<ui, call, shown>>
     ELSE /\ outcome' = [outcome EXCEPT ![s] = "done"]
          /\ pc' = [pc EXCEPT ![s] = "idle"]
          /\ UNCHANGED <<ui, call, shown, msgs>>
  /\ UNCHANGED <<env, caches, translate_client, widgets, counters>>

\* translate_text called with the session's inputs by a caller other than
\* the button handler (the facade's contract covers empty text, which main
\* never passes)
DirectCall(s) ==
  /\ pc[s] = "form"
  /\ ~clicked[s]
  /\ Invoke(s, "direct")
  /\ UNCHANGED <<env, caches, translate_client, widgets, counters>>

\* translate_text without the guard of line 151
EmptyTextUnchecked(text) == FALSE

\* the guard of line 151: empty text returns "" before the remote call
EmptyText(text) == text = ""

\* the entry stored for a call whose remote call raised (lines 157-160): the
\* "" returned by the except branch is the function's result
FailureEntry == Entry("", {E_TRANSLATE})

\* translate_text after a cache miss: the key's compute lock is taken, the
\* cache is read again and, on a second miss, the body runs up to the remote
\* call (lines 147-155)
translate_text(s) ==
  /\ pc[s] = "tt_wait"
  /\ LET text == original_text[s]
         lang == target_language_code[s]
         k == CacheKey(text, lang)
         c == ttCache[k]
     IN
     /\ ttLock[k] = 0
     /\ IF DataCacheHit(c)
        THEN /\ Finish(s, call[s].caller, c.val, c.msgs, TRUE)
             /\ UNCHANGED <<ttCache, ttLock, remoteCalls>>
        ELSE IF ~Truthy(translate_client[s])
        THEN /\ ttCache' = [ttCache EXCEPT ![k] = Entry("", {E_CLIENT})]
             /\ Finish(s, call[s].caller, "", {E_CLIENT}, FALSE)
             /\ UNCHANGED <<ttLock, remoteCalls>>
        ELSE IF EmptyText(text)
        THEN /\ ttCache' = [ttCache EXCEPT ![k] = Entry("", {})]
             /\ Finish(s, call[s].caller, "", {}, FALSE)
             /\ UNCHANGED <<ttLock, remoteCalls>>
        ELSE /\ remoteCalls' = [remoteCalls EXCEPT ![<<text, lang>>] = @ + 1]
             /\ ttLock' = [ttLock EXCEPT ![k] = s]
             /\ call' = [call EXCEPT ![s].issued = TRUE]
             /\ pc' = [pc EXCEPT ![s] = "remote"]
             /\ UNCHANGED <<ttCache, msgs, shown, ui, outcome>>
  /\ UNCHANGED <<env, credsCache, clientCache, translate_client, widgets,
                 runs, clientBuilt, credsLoaded, failed, lastCreds, secretReads>>

\* the remote call returns result['translatedText'] (lines 155-156)
RemoteReturn(s) ==
  /\ pc[s] = "remote"
  /\ LET k == CacheKey(original_text[s], target_language_code[s])
         v == Translated(original_text[s], target_language_code[s])
     IN
     /\ ttCache' = [ttCache EXCEPT ![k] = Entry(v, {})]
     /\ ttLock' = [ttLock EXCEPT ![k] = 0]
     /\ Finish(s, call[s].caller, v, {}, FALSE)
  /\ UNCHANGED <<env, credsCache, clientCache, translate_client, widgets, counters>>

\* the remote call raises (lines 157-160)
RemoteRaise(s) ==
  /\ pc[s] = "remote"
  /\ LET k == CacheKey(original_text[s], target_language_code[s]) IN
     /\ ttCache' = [ttCache EXCEPT ![k] = FailureEntry]
     /\ ttLock' = [ttLock EXCEPT ![k] = 0]
     /\ Finish(s, call[s].caller, "", {E_TRANSLATE}, FALSE)
  /\ failed' = failed \cup {<<original_text[s], target_language_code[s]>>}
  /\ UNCHANGED <<env, credsCache, clientCache, translate_client, widgets,
                 runs, clientBuilt, credsLoaded, remoteCalls, lastCreds, secretReads>>

Next ==
  \/ \E s \in Sessions, text \in Texts, lang \in LANGUAGES, click \in BOOLEAN : StartRun(s, text, lang, click)
  \/ \E s \in Sessions : get_translator_client(s)
  \/ \E s \in Sessions : main(s)
  \/ \E s \in Sessions : DirectCall(s)
  \/ \E s \in Sessions : translate_text(s)
  \/ \E s \in Sessions : RemoteReturn(s)
  \/ \E s \in Sessions : RemoteRaise(s)

Spec == Init /\ [][Next]_vars

\* ------------------------------------------------------- claims
\* the argument pair of session s's facade call
Pair(s) == <<original_text[s], target_language_code[s]>>

\* the run of s is past line 87: translate_client is bound
Loaded(s) == pc[s] \in {"form", "tt_wait", "remote"} \/ outcome[s] = "done"

\* get_creds has run its body at least once
Resolved == lastCreds.kind # "none"

\* the environment value ends in .json and names no existing file
MissingFile ==
  /\ environ.set
  /\ EndsWithJson(environ.value)
  /\ ~(environ.value \in DOMAIN files /\ files[environ.value].exists)

\* neither the variable nor the secret is present
NoSource == ~environ.set /\ ~secrets.set

\* the variable names an existing path ending in .json
NamesFile ==
  /\ environ.set
  /\ environ.value \in DOMAIN files
  /\ files[environ.value].exists
  /\ EndsWithJson(environ.value)

\* the source the fixed priority selects, as a set (empty when none is present)
ChosenSource ==
  IF environ.set THEN (IF NamesFile THEN {"file"} ELSE {"env"})
  ELSE IF secrets.set THEN {"secret"} ELSE {}

\* the text of the selected source, as a set (empty when there is no source
\* or the source yields no text)
ChosenText ==
  IF environ.set
  THEN IF NamesFile
       THEN (IF files[environ.value].kind = "text" THEN {files[environ.value].content} ELSE {})
       ELSE {environ.value}
  ELSE IF secrets.set /\ secrets.text THEN {secrets.value} ELSE {}

\* the selected text is not JSON
Malformed == \E txt \in ChosenText : ~JsonLoads(txt).ok

\* C1: whenever no source is present or the selected source fails to parse,
\* get_creds reports an error and stops the run; it never returns normally
\* without a parsed payload.
C1_HaltsUnlessParsed ==
  Resolved /\ (NoSource \/ Malformed)
    => lastCreds.kind = "stop" /\ lastCreds.msgs # {}

\* C2: each resolution parses at most one source, the one the fixed priority
\* selects (file named by the variable, else the variable's value, else the
\* secret, the latter only when the variable is absent); a successful result
\* is the JSON parse of that source; with the variable set the secret store is
\* never read.
C2_SourcePriority ==
  Resolved =>
    /\ lastCreds.src \subseteq ChosenSource
    /\ Cardinality(lastCreds.src) <= 1
    /\ ChosenText # {} => lastCreds.src = ChosenSource /\ Cardinality(lastCreds.src) = 1
    /\ environ.set => secretReads = 0
    /\ ~environ.set => secretReads > 0
    /\ lastCreds.parsed =>
         /\ lastCreds.kind = "return"
         /\ lastCreds.src = ChosenSource
         /\ ChosenText # {}
         /\ \A txt \in ChosenText : JsonLoads(txt).ok /\ lastCreds.val = JsonLoads(txt).val
         /\ credsCache = Entry(lastCreds.val, {})
    /\ (ChosenText # {} /\ ~Malformed) => lastCreds.parsed

\* the variable names an existing .json file whose parsed contents are the
\* stored payload, while a secret is present and unread
C2_Witness ==
  /\ Resolved
  /\ lastCreds.src = {"file"}
  /\ lastCreds.parsed
  /\ secrets.set
  /\ credsCache.set

\* C3: each credential error condition yields its own message: a path-like
\* value naming no file the missing-file message, malformed JSON a decode
\* message, absence of both sources the no-credentials message.
C3_DistinctMessages ==
  Resolved =>
    /\ MissingFile => lastCreds.msgs = {E_FILE}
    /\ (Malformed /\ ~MissingFile) => lastCreds.msgs \in {{E_JSON_ENV}, {E_JSON_SECRET}}
    /\ NoSource => lastCreds.msgs = {E_NO_CREDS}

\* C4: the client is constructed at most once and the credential cache is
\* populated at most once in the process; every run past line 87 holds the
\* one cached instance.
C4_ClientOnce ==
  /\ clientBuilt <= 1
  /\ credsLoaded <= 1
  /\ \A s \in Sessions : Loaded(s) => clientCache.set /\ translate_client[s] = clientCache.val
  /\ \A s, t \in Sessions : Loaded(s) /\ Loaded(t) => translate_client[s] = translate_client[t]

\* two sessions are past line 87 with the same constructed client
C4_Witness ==
  \E s, t \in Sessions :
    /\ s # t
    /\ Loaded(s) /\ Loaded(t)
    /\ translate_client[s] = Client(1)
    /\ translate_client[t] = Client(1)
    /\ runs >= 2

\* C5: the remote service is invoked at most once per (text, language) pair;
\* a later call with the same pair returns the first call's result without an
\* outbound call, and a call never returns another pair's entry.
C5_OncePerPair ==
  /\ \A k \in Keys : remoteCalls[k] <= 1
  /\ \A s \in Sessions :
       call[s].done =>
         /\ call[s].hit => ~call[s].issued
         /\ call[s].ret \in {"", Translated(Pair(s)[1], Pair(s)[2])}
         /\ \A t \in Sessions : call[t].done /\ Pair(t) = Pair(s) => call[t].ret = call[s].ret

\* a call returned a translation from the cache after the one remote call
C5_Witness ==
  \E s \in Sessions :
    /\ call[s].done
    /\ call[s].hit
    /\ call[s].ret # ""
    /\ remoteCalls[Pair(s)] = 1

\* C6: after a remote-call failure a new request is issued to the remote
\* service, also when it repeats the pair that failed.
C6_RetryReachesService ==
  \A s \in Sessions :
    (call[s].done /\ call[s].failedBefore /\ original_text[s] # "" /\ translate_client[s].t = "Client")
      => call[s].issued

\* no source present, or the environment variable set to a value (or to a
\* file) that is not JSON
FatalEnvironment ==
  \/ NoSource
  \/ environ.set /\ Malformed

\* C7: when credential resolution fails fatally no client is constructed and
\* the run ends before the form: no facade call, no outbound call.
C7_FatalStopsRun ==
  FatalEnvironment =>
    /\ clientBuilt = 0
    /\ ~clientCache.set
    /\ \A k \in Keys : remoteCalls[k] = 0
    /\ \A s \in Sessions :
         /\ pc[s] \in {"idle", "client_wait"}
         /\ outcome[s] \in {"none", "running", "stopped"}
         /\ call[s] = NoCall
         /\ W_EMPTY \notin msgs[s]
         /\ shown[s] = ""
         /\ ui[s] = "Idle"

\* a run whose user pressed Translate on a text was stopped by the decode error
C7_Witness ==
  \E s \in Sessions :
    /\ outcome[s] = "stopped"
    /\ E_JSON_ENV \in msgs[s]
    /\ clicked[s]
    /\ original_text[s] # ""

\* C8: a facade call with empty text returns "" and never reaches the remote
\* service, whatever the client and the cache hold.
C8_EmptyTextNoRemote ==
  /\ \A k \in Keys : k[1] = "" => remoteCalls[k] = 0
  /\ \A s \in Sessions :
       original_text[s] = "" =>
         /\ pc[s] # "remote"
         /\ ~call[s].issued
         /\ call[s].done => call[s].ret = ""

\* a facade call with empty text returned while the client was available
C8_Witness ==
  \E s \in Sessions :
    /\ call[s].done
    /\ original_text[s] = ""
    /\ translate_client[s].t = "Client"

\* session s is inside the button handler's facade call
InButtonCall(s) == pc[s] \in {"tt_wait", "remote"} /\ call[s].caller = "main"

C9_States ==
  \A s \in Sessions :
    /\ ui[s] \in {"Idle", "Pending"}
    /\ ui[s] = "Pending" <=> InButtonCall(s)
    /\ call[s].n <= 1
    /\ (outcome[s] = "done" /\ clicked[s]) =>
         IF original_text[s] = ""
         THEN W_EMPTY \in msgs[s] /\ call[s] = NoCall /\ shown[s] = ""
         ELSE /\ call[s].n = 1 /\ call[s].done /\ call[s].caller = "main"
              /\ shown[s] = call[s].ret
              /\ W_EMPTY \notin msgs[s]

C9_Steps ==
  \A s \in Sessions :
    /\ (ui[s] = "Idle" /\ ui'[s] = "Pending") =>
         pc[s] = "form" /\ clicked[s] /\ original_text[s] # ""
    /\ (ui[s] = "Pending" /\ call'[s].done) => ui'[s] = "Idle"
    /\ (ui[s] = "Pending" /\ ui'[s] = "Idle") => call'[s].done /\ shown'[s] = call'[s].ret

\* C9: the form is Idle except during the button handler's facade call: a
\* trigger with empty text warns and invokes nothing; a trigger with text
\* invokes the facade once, is Pending until it returns, then Idle, and
\* renders the result if and only if it is non-empty.
C9_FormStateMachine == []C9_States /\ [][C9_Steps]_vars

\* a button call went to the remote service and its translation is rendered
C9_Witness ==
  \E s \in Sessions :
    /\ ui[s] = "Idle"
    /\ call[s].done /\ call[s].caller = "main" /\ call[s].issued
    /\ shown[s] # ""

\* None, or JSON that is empty
Falsy(v) == v \in {PyNone, PyDict(<<>>), PyInt(0), PyStr(<<>>)}

C10_States ==
  /\ clientCache.set =>
       /\ credsCache.set
       /\ clientCache.val = PyNone <=> Falsy(credsCache.val)
  /\ (credsCache.set /\ Falsy(credsCache.val)) =>
       /\ \A s \in Sessions : outcome[s] \notin {"stopped", "crashed"}
       /\ \A k \in Keys : remoteCalls[k] = 0
       /\ \A s \in Sessions :
            call[s].done => call[s].ret = "" /\ E_CLIENT \in msgs[s] /\ shown[s] = ""

\* C10: get_translator_client returns None, and does not raise, exactly when
\* get_creds returned an absent or empty payload; the None stays cached; with
\* it every facade call reports the client-unavailable error and returns ""
\* without an outbound call, and the run is not halted.
C10_UnavailableClient == []C10_States /\ [][clientCache.set => clientCache' = clientCache]_vars

\* a repeated facade call was answered from the cache with the client unavailable
C10_Witness ==
  \E s \in Sessions :
    /\ call[s].done
    /\ call[s].hit
    /\ clientCache = Entry(PyNone, {})
    /\ credsCache.val = PyDict(<<>>)
    /\ E_CLIENT \in msgs[s]
====
